---- MODULE Spec2Model ----
(***************************************************************************)
(* A model of the file-comparison CLI of src/index.ts: the history store   *)
(* (loadHistory / saveHistory), the OpenAI client wrapper                  *)
(* (initializeClient / sendMessageToChatGPTWithStream) and main().         *)
(*                                                                         *)
(* JavaScript values are tagged records.  A string is the sequence of its  *)
(* characters, a string literal of the program being one token of it.  The *)
(* history file is either missing, text that is not JSON, or a JSON        *)
(* document.                                                               *)
(***************************************************************************)
EXTENDS Integers, Sequences, FiniteSets, TLC

VARIABLES
    file,          \* content of HISTORY_FILE on disk
    pc,            \* position of main() ("idle": no process is running)
    history,       \* main's `history` (the value loadHistory returned)
    openai,        \* the module-level client handle
    selectorText,  \* main's `selectorText`
    answers,       \* main's `answers` (filePath1, filePath2, taskPrompt)
    fileContent1,  \* main's `fileContent1`
    fileContent2,  \* main's `fileContent2`
    conversation,  \* main's `conversation.messages`
    call,          \* state of the running sendMessageToChatGPTWithStream call
    message,       \* sendMessageToChatGPTWithStream's accumulator `message`
    stdout,        \* the writes made with process.stdout.write, in order
    error,         \* message of the Error most recently thrown ("" if none)
    events,        \* history: delta.content of the stream events received by the call
    requests,      \* history: number of chat.completions.create requests issued
    initialized,   \* history: an initializeClient call has succeeded in this process
    lastInit,      \* history: argument, handle before and outcome of the last initializeClient call
    lastSend,      \* history: what the last sendMessageToChatGPTWithStream call found and did
    typed,         \* history: what the user typed at the free-text prompts of this run
    asked,         \* history: names of the prompts asked in this run
    picked,        \* history: index of the list option the user picked (0: none yet)
    saves,         \* history: number of saveHistory calls in this run
    fileAtStart,   \* history: content of HISTORY_FILE when this run started
    outcome        \* history: how the run ended ("" while running)

vars == <<file, pc, history, openai, selectorText, answers, fileContent1,
          fileContent2, conversation, call, message, stdout, error, events,
          requests, initialized, lastInit, lastSend, typed, asked, picked, saves,
          fileAtStart, outcome>>

(***************************************************************************)
(* Bounds of the model.                                                    *)
(***************************************************************************)
MaxSessions == 2
MaxRawTexts == 2
MaxEvents == 2

(***************************************************************************)
(* JavaScript values.                                                      *)
(***************************************************************************)
Undefined == [type |-> "undefined"]
Null == [type |-> "null"]
Num(n) == [type |-> "number", num |-> n]
Str(s) == [type |-> "string", chars |-> s]
Arr(xs) == [type |-> "array", items |-> xs]
Obj(ps) == [type |-> "object", props |-> ps]

\* ToBoolean, as `if (x)`, `!x` and `x || y` apply it.
Truthy(v) ==
    CASE v.type = "undefined" -> FALSE
      [] v.type = "null" -> FALSE
      [] v.type = "number" -> v.num # 0
      [] v.type = "string" -> v.chars # <<>>
      [] OTHER -> TRUE

\* Property read `o.name` on an object: undefined when the property is missing.
Get(o, name) == IF name \in DOMAIN o.props THEN o.props[name] ELSE Undefined

\* Property write `o.name = v` on an object.
Set(o, name, v) ==
    Obj([k \in DOMAIN o.props \cup {name} |-> IF k = name THEN v ELSE o.props[k]])

\* Array.prototype.push.
Push(a, v) == Arr(Append(a.items, v))

(***************************************************************************)
(* Strings.                                                                *)
(***************************************************************************)
WhiteSpace == {" ", "\t", "\n"}

RECURSIVE TrimStart(_)
TrimStart(s) ==
    IF s = <<>> THEN s
    ELSE IF Head(s) \in WhiteSpace THEN TrimStart(Tail(s)) ELSE s

RECURSIVE TrimEnd(_)
TrimEnd(s) ==
    IF s = <<>> THEN s
    ELSE IF s[Len(s)] \in WhiteSpace THEN TrimEnd(SubSeq(s, 1, Len(s) - 1)) ELSE s

\* String.prototype.trim.
Trim(s) == TrimEnd(TrimStart(s))

(***************************************************************************)
(* The history file.                                                       *)
(***************************************************************************)
Missing == [kind |-> "missing"]
Garbage == [kind |-> "garbage"]          \* text that is not JSON
JsonText(doc) == [kind |-> "json", doc |-> doc]

\* JSON.stringify(value, null, 2): a property whose value is undefined is
\* left out, an undefined array item is written as null.
RECURSIVE JSONstringify(_)
JSONstringify(v) ==
    CASE v.type = "object" ->
           Obj([k \in {n \in DOMAIN v.props : v.props[n].type # "undefined"}
                  |-> JSONstringify(v.props[k])])
      [] v.type = "array" ->
           Arr([i \in DOMAIN v.items |->
                  IF v.items[i].type = "undefined" THEN Null
                  ELSE JSONstringify(v.items[i])])
      [] OTHER -> v

\* The value of the default object literal of loadHistory's catch branch.
DefaultHistory ==
    Obj([openAiApiKey |-> Undefined, rawTextsUsed |-> Arr(<<>>), sessions |-> Arr(<<>>)])

\* fs.readFileSync(HISTORY_FILE) throws when the file is missing, JSON.parse
\* throws on text that is not JSON; every other text parses to its document.
loadHistory(f) ==
    IF f.kind = "missing" THEN DefaultHistory
    ELSE IF f.kind = "garbage" THEN DefaultHistory
    ELSE f.doc

\* fs.writeFileSync(HISTORY_FILE, JSON.stringify(historyData, null, 2)).
saveHistory(historyData) == JsonText(JSONstringify(historyData))

(***************************************************************************)
(* The OpenAI client wrapper.                                              *)
(***************************************************************************)
\* new OpenAI({ apiKey })
Client(apiKey) == [type |-> "client", apiKey |-> apiKey]

\* Mutant: a failed call drops the handle.
initializeClient_Clears(apiKey, cur) ==
    IF Truthy(apiKey)
      THEN [openai |-> Client(apiKey), error |-> ""]
      ELSE [openai |-> Null, error |-> "Failed to initiate OpenAI Client"]

\* initializeClient(apiKey) called with the handle `cur`: the handle after the
\* call and the message of the Error it throws ("" when it returns).
initializeClient(apiKey, cur) ==
    IF Truthy(apiKey)
      THEN [openai |-> Client(apiKey), error |-> ""]
      ELSE [openai |-> cur, error |-> "Failed to initiate OpenAI Client"]

\* The guard `if (!openai)` of sendMessageToChatGPTWithStream.
NotInitialized(handle) == ~Truthy(handle)

\* A stream event's choices[0].delta.content: missing, empty or a chunk of text.
Deltas == {Undefined, Str(<<>>), Str(<<"H", "e">>), Str(<<"l">>)}

\* Mutant: the delta is put in front of the accumulator.
OnEvent_Prepend(content, msg, out) ==
    IF Truthy(content)
      THEN [message |-> content.chars \o msg, stdout |-> Append(out, content.chars)]
      ELSE [message |-> msg, stdout |-> out]

\* The body of the `for await` loop for one event: the accumulator and the
\* standard output after it.
OnEvent(content, msg, out) ==
    IF Truthy(content)
      THEN [message |-> msg \o content.chars, stdout |-> Append(out, content.chars)]
      ELSE [message |-> msg, stdout |-> out]

(***************************************************************************)
(* main(): prompts, files and the conversation.                            *)
(***************************************************************************)
\* The literal option of the list prompt (one token: the literal's text).
EnterNewText == <<"Enter new text">>

Separator == [type |-> "separator"]      \* new inquirer.Separator()

\* rawTextChoices
rawTextChoices(h) ==
    IF Len(Get(h, "rawTextsUsed").items) # 0
      THEN Get(h, "rawTextsUsed").items \o <<Separator, Str(EnterNewText)>>
      ELSE <<Str(EnterNewText)>>

\* What the user may answer to the prompts.
KeyAnswers == {<<>>, <<" ">>, <<" ", "k", " ">>}
NewTexts == {<<>>, <<" ">>, <<"a">>, EnterNewText}
FirstPaths == {<<"foo.txt">>, <<"nope.txt">>}
SecondPaths == {<<"bar.txt">>, <<"nope.txt">>}
TaskPrompts == {<<>>, <<"t">>}
Timestamps == {<<"2024-01-01T00:00:00.000Z">>}

\* The files of the user's disk: foo.txt and bar.txt exist, each holding one of
\* these texts when it is read; no other path can be read.
FileTexts == {<<"A">>, <<"B">>}
Readable == {<<"foo.txt">>, <<"bar.txt">>}

\* The possible outcomes of fs.readFileSync(path.resolve(p), "utf-8").
readFileSync(p) ==
    IF p \in Readable
      THEN {[ok |-> TRUE, data |-> t] : t \in FileTexts}
      ELSE {[ok |-> FALSE, data |-> <<>>]}

SystemContent ==
    <<"You are a helpful assistant that compares two files and provides insights.">>
Header == <<"\nI have two files.\n\nFile 1 Content:\n">>
Label2 == <<"\n\nFile 2 Content:\n">>
TaskLabel == <<"\n\nTask: ">>
Fallback == <<"Compare and analyze the differences.">>

\* answers.taskPrompt || "Compare and analyze the differences."
TaskOrFallback(taskPrompt) == IF Truthy(taskPrompt) THEN taskPrompt.chars ELSE Fallback

\* Mutant: the two file texts change places.
UserContent_Swapped(f1, f2, taskPrompt) ==
    Header \o f2 \o Label2 \o f1 \o TaskLabel \o TaskOrFallback(taskPrompt) \o <<"\n">>

\* The template literal of the user message.
UserContent(f1, f2, taskPrompt) ==
    Header \o f1 \o Label2 \o f2 \o TaskLabel \o TaskOrFallback(taskPrompt) \o <<"\n">>

\* conversation.messages
Messages(f1, f2, taskPrompt, selector) ==
    Arr(<< Obj([role |-> Str(<<"system">>), content |-> Str(SystemContent)]),
           Obj([role |-> Str(<<"user">>), content |-> Str(UserContent(f1, f2, taskPrompt))]) >>)

\* Mutant: the id is the length, without the + 1.
newSessionId_Length(h) == Len(Get(h, "sessions").items)

\* const newSessionId = history.sessions.length + 1
newSessionId(h) == Len(Get(h, "sessions").items) + 1

\* The record pushed onto history.sessions.
SessionRecord(h, selector, ans, ts) ==
    Obj([id |-> Num(newSessionId(h)),
         selectorText |-> selector,
         filePath1 |-> Get(ans, "filePath1"),
         filePath2 |-> Get(ans, "filePath2"),
         taskPrompt |-> Get(ans, "taskPrompt"),
         timestamp |-> Str(ts)])

(***************************************************************************)
(* The state after construction: no process is running, and the history    *)
(* file does not exist yet.                                                *)
(***************************************************************************)
NoInit == [made |-> FALSE, apiKey |-> Undefined, before |-> Null, error |-> ""]
NoSend == [made |-> FALSE, initialized |-> FALSE, notInitialized |-> FALSE, issued |-> FALSE]
NothingTyped == [apiKey |-> Undefined, newSelectorText |-> Undefined]

Fresh ==
    /\ history = Undefined
    /\ openai = Null
    /\ selectorText = Undefined
    /\ answers = Undefined
    /\ fileContent1 = <<>>
    /\ fileContent2 = <<>>
    /\ conversation = Undefined
    /\ call = "none"
    /\ message = <<>>
    /\ stdout = <<>>
    /\ error = ""
    /\ events = <<>>
    /\ requests = 0
    /\ initialized = FALSE
    /\ lastInit = NoInit
    /\ lastSend = NoSend
    /\ typed = NothingTyped
    /\ asked = {}
    /\ picked = 0
    /\ saves = 0
    /\ outcome = ""

Init ==
    /\ file = Missing
    /\ fileAtStart = Missing
    /\ pc = "idle"
    /\ Fresh

\* The variables of main's frame, the client and the stream.
frame == <<selectorText, answers, fileContent1, fileContent2, conversation>>
stream == <<call, message, stdout, events, requests, lastSend>>
client == <<openai, initialized, lastInit>>

(***************************************************************************)
(* main(), one action per step between two prompts, reads or calls.        *)
(***************************************************************************)
\* Mutant: the key is asked for in every run.
NeedsKey_Always(h) == TRUE

\* Line 124: `if (!history.openAiApiKey)`.
NeedsKey(h) == ~Truthy(Get(h, "openAiApiKey"))

\* Mutant: the answer is stored as typed.
StoreKey_NoTrim(h, apiKey) == Set(h, "openAiApiKey", Str(apiKey))

\* Line 132: history.openAiApiKey = apiKey.trim().
StoreKey(h, apiKey) == Set(h, "openAiApiKey", Str(Trim(apiKey)))

\* Mutant: the text is tested as typed.
ShouldRemember_NoTrim(text) == Truthy(Str(text))

\* Line 164: `if (selectorText.trim())`.
ShouldRemember(text) == Truthy(Str(Trim(text)))

\* A call of initializeClient(apiKey): lines 43-50.
CallInitializeClient(apiKey) ==
    LET r == initializeClient(apiKey, openai) IN
      /\ openai' = r.openai
      /\ error' = r.error
      /\ lastInit' = [made |-> TRUE, apiKey |-> apiKey, before |-> openai,
                      error |-> r.error]
      /\ initialized' = (initialized \/ r.error = "")

\* `compare` starts main(): lines 118-131, up to the API key prompt.
StartRun ==
    /\ pc = "idle"
    /\ Len(Get(loadHistory(file), "sessions").items) < MaxSessions
    /\ history' = loadHistory(file)
    /\ fileAtStart' = file
    /\ IF NeedsKey(history')
         THEN pc' = "askKey" /\ asked' = {"apiKey"}
         ELSE pc' = "init" /\ asked' = {}
    /\ UNCHANGED <<file, frame, stream, client, error, typed, picked, saves, outcome>>

\* The user answers the API key prompt: lines 132-133.
AnswerApiKey(apiKey) ==
    /\ pc = "askKey"
    /\ typed' = [typed EXCEPT !.apiKey = Str(apiKey)]
    /\ history' = StoreKey(history, apiKey)
    /\ file' = saveHistory(history')
    /\ saves' = saves + 1
    /\ pc' = "init"
    /\ UNCHANGED <<frame, stream, client, error, asked, picked, fileAtStart, outcome>>

\* await initializeClient(history.openAiApiKey!), then the list prompt: lines 137-151.
InitClient ==
    /\ pc = "init"
    /\ CallInitializeClient(Get(history, "openAiApiKey"))
    /\ IF lastInit'.error # ""
         THEN pc' = "exited" /\ outcome' = "initError" /\ asked' = asked
         ELSE pc' = "chooseSelector" /\ outcome' = outcome
              /\ asked' = asked \cup {"selectedOrNew"}
    /\ UNCHANGED <<file, history, frame, stream, typed, picked, saves, fileAtStart>>

\* The user picks option i of the list: lines 153-161 / 153-154 and 170.
ChooseSelector(i) ==
    /\ pc = "chooseSelector"
    /\ i \in DOMAIN rawTextChoices(history)
    /\ rawTextChoices(history)[i] # Separator
    /\ picked' = i
    /\ selectorText' = rawTextChoices(history)[i]
    /\ IF selectorText' = Str(EnterNewText)
         THEN pc' = "enterNew" /\ asked' = asked \cup {"newSelectorText"}
         ELSE pc' = "collect" /\ asked' = asked \cup {"answers"}
    /\ UNCHANGED <<file, history, answers, fileContent1, fileContent2, conversation,
                   stream, client, error, typed, saves, fileAtStart, outcome>>

\* The user answers the follow-up prompt: lines 162-170.
EnterNew(newSelectorText) ==
    /\ pc = "enterNew"
    /\ \/ ~ShouldRemember(newSelectorText)
       \/ Len(Get(history, "rawTextsUsed").items) < MaxRawTexts
    /\ typed' = [typed EXCEPT !.newSelectorText = Str(newSelectorText)]
    /\ selectorText' = Str(newSelectorText)
    /\ history' = IF ShouldRemember(newSelectorText)
                    THEN Set(history, "rawTextsUsed",
                             Push(Get(history, "rawTextsUsed"), selectorText'))
                    ELSE history
    /\ pc' = "collect"
    /\ asked' = asked \cup {"answers"}
    /\ UNCHANGED <<file, answers, fileContent1, fileContent2, conversation,
                   stream, client, error, picked, saves, fileAtStart, outcome>>

\* The user answers the batch of three prompts: lines 170-191.
AnswerFilePrompts(p1, p2, task) ==
    /\ pc = "collect"
    /\ answers' = Obj([filePath1 |-> Str(p1), filePath2 |-> Str(p2), taskPrompt |-> Str(task)])
    /\ pc' = "read1"
    /\ UNCHANGED <<file, history, selectorText, fileContent1, fileContent2, conversation,
                   stream, client, error, typed, asked, picked, saves, fileAtStart, outcome>>

\* Lines 193-198.
ReadFile1 ==
    /\ pc = "read1"
    /\ \E r \in readFileSync(Get(answers, "filePath1").chars) :
         IF r.ok
           THEN fileContent1' = r.data /\ pc' = "read2" /\ outcome' = outcome
           ELSE fileContent1' = fileContent1 /\ pc' = "exited" /\ outcome' = "read1Error"
    /\ UNCHANGED <<file, history, selectorText, answers, fileContent2, conversation,
                   stream, client, error, typed, asked, picked, saves, fileAtStart>>

\* Lines 200-205.
ReadFile2 ==
    /\ pc = "read2"
    /\ \E r \in readFileSync(Get(answers, "filePath2").chars) :
         IF r.ok
           THEN fileContent2' = r.data /\ pc' = "build" /\ outcome' = outcome
           ELSE fileContent2' = fileContent2 /\ pc' = "exited" /\ outcome' = "read2Error"
    /\ UNCHANGED <<file, history, selectorText, answers, fileContent1, conversation,
                   stream, client, error, typed, asked, picked, saves, fileAtStart>>

\* Lines 208-230.
BuildConversation ==
    /\ pc = "build"
    /\ conversation' = Messages(fileContent1, fileContent2,
                                Get(answers, "taskPrompt"), selectorText)
    /\ pc' = "callLLM"
    /\ UNCHANGED <<file, history, selectorText, answers, fileContent1, fileContent2,
                   stream, client, error, typed, asked, picked, saves, fileAtStart, outcome>>

(***************************************************************************)
(* sendMessageToChatGPTWithStream, one action per await.                   *)
(***************************************************************************)
\* The call up to its first await: lines 60-71.
SendStart ==
    /\ events' = <<>>
    /\ message' = <<>>
    /\ stdout' = <<>>
    /\ IF NotInitialized(openai)
         THEN call' = "threw" /\ error' = "OpenAI not initialized" /\ requests' = requests
         ELSE call' = "creating" /\ error' = error /\ requests' = requests + 1
    /\ lastSend' = [made |-> TRUE, initialized |-> initialized,
                    notInitialized |-> (error' = "OpenAI not initialized"),
                    issued |-> (requests' # requests)]

\* Line 236: main calls sendMessageToChatGPTWithStream(conversation, "gpt-4o-mini", 0.7).
CallLLM ==
    /\ pc = "callLLM"
    /\ SendStart
    /\ pc' = "awaitLLM"
    /\ UNCHANGED <<file, history, frame, client, typed, asked, picked, saves,
                   fileAtStart, outcome>>

\* The provider accepts the request: lines 65-77.
CreateResolves ==
    /\ call = "creating"
    /\ call' = "streaming"
    /\ UNCHANGED <<file, pc, history, frame, client, message, stdout, error, events,
                   requests, lastSend, typed, asked, picked, saves, fileAtStart, outcome>>

\* The provider rejects the request: lines 72-75.
CreateRejects ==
    /\ call = "creating"
    /\ call' = "threw"
    /\ error' = "Error in stream"
    /\ UNCHANGED <<file, pc, history, frame, client, message, stdout, events,
                   requests, lastSend, typed, asked, picked, saves, fileAtStart, outcome>>

\* One event of the stream arrives: lines 78-84.
StreamEvent(content) ==
    /\ call = "streaming"
    /\ Len(events) < MaxEvents
    /\ events' = Append(events, content)
    /\ message' = OnEvent(content, message, stdout).message
    /\ stdout' = OnEvent(content, message, stdout).stdout
    /\ UNCHANGED <<file, pc, history, frame, client, call, error, requests,
                   lastSend, typed, asked, picked, saves, fileAtStart, outcome>>

\* The stream fails while it is iterated: the `for await` throws.
StreamFails ==
    /\ call = "streaming"
    /\ call' = "threw"
    /\ error' = "stream failed"
    /\ UNCHANGED <<file, pc, history, frame, client, message, stdout, events,
                   requests, lastSend, typed, asked, picked, saves, fileAtStart, outcome>>

\* The stream ends: line 86 returns `message`.
StreamEnds ==
    /\ call = "streaming"
    /\ call' = "returned"
    /\ UNCHANGED <<file, pc, history, frame, client, message, stdout, error, events,
                   requests, lastSend, typed, asked, picked, saves, fileAtStart, outcome>>

(***************************************************************************)
(* main() after the call.                                                  *)
(***************************************************************************)
\* Mutant: the catch writes the history before it returns.
CatchLLM_Saves ==
    /\ pc = "awaitLLM"
    /\ call = "threw"
    /\ pc' = "exited"
    /\ outcome' = "llmError"
    /\ file' = saveHistory(history)
    /\ UNCHANGED <<history, frame, stream, client, error, typed, asked, picked,
                   saves, fileAtStart>>

\* Lines 241-244: the catch of the call.
CatchLLM ==
    /\ pc = "awaitLLM"
    /\ call = "threw"
    /\ pc' = "exited"
    /\ outcome' = "llmError"
    /\ UNCHANGED <<file, history, frame, stream, client, error, typed, asked, picked,
                   saves, fileAtStart>>

\* Lines 247-263: the record is pushed and the history written.
RecordSession(ts) ==
    /\ pc = "awaitLLM"
    /\ call = "returned"
    /\ history' = Set(history, "sessions",
                      Push(Get(history, "sessions"),
                           SessionRecord(history, selectorText, answers, ts)))
    /\ file' = saveHistory(history')
    /\ saves' = saves + 1
    /\ pc' = "exited"
    /\ outcome' = "saved"
    /\ UNCHANGED <<frame, stream, client, error, typed, asked, picked, fileAtStart>>

\* The process ends; the next `compare` is a new process.
ProcessExit ==
    /\ pc = "exited"
    /\ pc' = "idle"
    /\ history' = Undefined
    /\ openai' = Null
    /\ selectorText' = Undefined
    /\ answers' = Undefined
    /\ fileContent1' = <<>>
    /\ fileContent2' = <<>>
    /\ conversation' = Undefined
    /\ call' = "none"
    /\ message' = <<>>
    /\ stdout' = <<>>
    /\ error' = ""
    /\ events' = <<>>
    /\ requests' = 0
    /\ initialized' = FALSE
    /\ lastInit' = NoInit
    /\ lastSend' = NoSend
    /\ typed' = NothingTyped
    /\ asked' = {}
    /\ picked' = 0
    /\ saves' = 0
    /\ outcome' = ""
    /\ fileAtStart' = file
    /\ UNCHANGED file

Next ==
    \/ StartRun
    \/ \E k \in KeyAnswers : AnswerApiKey(k)
    \/ InitClient
    \/ \E i \in 1..(MaxRawTexts + 3) : ChooseSelector(i)
    \/ \E t \in NewTexts : EnterNew(t)
    \/ \E p1 \in FirstPaths, p2 \in SecondPaths, t \in TaskPrompts : AnswerFilePrompts(p1, p2, t)
    \/ ReadFile1
    \/ ReadFile2
    \/ BuildConversation
    \/ CallLLM
    \/ CreateResolves
    \/ CreateRejects
    \/ \E d \in Deltas : StreamEvent(d)
    \/ StreamFails
    \/ StreamEnds
    \/ CatchLLM
    \/ \E ts \in Timestamps : RecordSession(ts)
    \/ ProcessExit

Spec == Init /\ [][Next]_vars

(***************************************************************************)
(* The two exported functions called by any caller, in any order.          *)
(***************************************************************************)
MaxRequests == 2

\* The keys a caller may pass: absent, empty, blank and a key.
ApiKeyArgs == {Undefined, Null, Str(<<>>), Str(<<" ">>), Str(<<"k">>)}

\* A caller calls initializeClient(apiKey).
ApiInitializeClient(apiKey) ==
    /\ pc = "idle"
    /\ CallInitializeClient(apiKey)
    /\ UNCHANGED <<file, pc, history, frame, stream, typed, asked, picked, saves,
                   fileAtStart, outcome>>

\* A caller calls sendMessageToChatGPTWithStream once the previous call is over.
ApiSend ==
    /\ pc = "idle"
    /\ call \in {"none", "returned", "threw"}
    /\ requests < MaxRequests
    /\ SendStart
    /\ UNCHANGED <<file, pc, history, frame, client, typed, asked, picked, saves,
                   fileAtStart, outcome>>

NextClient ==
    \/ \E k \in ApiKeyArgs : ApiInitializeClient(k)
    \/ ApiSend
    \/ CreateResolves
    \/ CreateRejects
    \/ \E d \in Deltas : StreamEvent(d)
    \/ StreamFails
    \/ StreamEnds

SpecClient == Init /\ [][NextClient]_vars

(***************************************************************************)
(* loadHistory on any content of the history file.                         *)
(***************************************************************************)
ARecord ==
    Obj([id |-> Num(1), selectorText |-> Str(<<"a">>), filePath1 |-> Str(<<"foo.txt">>),
         filePath2 |-> Str(<<"bar.txt">>), taskPrompt |-> Str(<<>>),
         timestamp |-> Str(<<"2024-01-01T00:00:00.000Z">>)])

\* JSON documents: values that are no object, and objects with or without each
\* of the three properties, of the right type or not.
JsonDocs ==
    {Null, Num(0), Num(5), Str(<<>>), Str(<<"x">>), Arr(<<>>)}
    \cup { JSONstringify(Obj([openAiApiKey |-> k, rawTextsUsed |-> r, sessions |-> ss])) :
             k \in {Undefined, Str(<<>>), Str(<<"k">>)},
             r \in {Undefined, Null, Arr(<<>>), Arr(<<Str(<<"a">>)>>)},
             ss \in {Undefined, Num(0), Arr(<<>>), Arr(<<ARecord>>)} }

HistoryFiles == {Missing, Garbage} \cup {JsonText(d) : d \in JsonDocs}

InitLoad ==
    /\ file \in HistoryFiles
    /\ fileAtStart = file
    /\ pc = "idle"
    /\ Fresh

\* A call of loadHistory(): lines 95-107.
CallLoadHistory ==
    /\ pc = "idle"
    /\ history' = loadHistory(file)
    /\ pc' = "loaded"
    /\ UNCHANGED <<file, frame, stream, client, error, typed, asked, picked, saves,
                   fileAtStart, outcome>>

SpecLoad == InitLoad /\ [][CallLoadHistory]_vars

(***************************************************************************)
(* What the claims speak of.                                               *)
(***************************************************************************)
\* What a load of the file `f` finds.
SessionsOn(f) == Get(loadHistory(f), "sessions").items
RawTextsOn(f) == Get(loadHistory(f), "rawTextsUsed").items
KeyOn(f) == Get(loadHistory(f), "openAiApiKey")

\* The text has a character that is not white space.
NonBlank(t) == \E i \in 1..Len(t) : t[i] \notin WhiteSpace

\* The text without its leading and trailing white space.
Trimmed(t) ==
    IF NonBlank(t)
      THEN LET a == CHOOSE i \in 1..Len(t) :
                       t[i] \notin WhiteSpace /\ \A j \in 1..(i - 1) : t[j] \in WhiteSpace
               b == CHOOSE i \in 1..Len(t) :
                       t[i] \notin WhiteSpace /\ \A j \in (i + 1)..Len(t) : t[j] \in WhiteSpace
           IN SubSeq(t, a, b)
      ELSE <<>>

\* The run ended early at a file read or at the call of the LLM.
Aborted == pc = "exited" /\ outcome \in {"read1Error", "read2Error", "llmError"}

\* C1: a run that ends because a file cannot be read or because the call of
\* the LLM fails appends no record and does not write the history again: the
\* file on disk is the one the run found, but for the API key written earlier
\* in the run, and a selector text pushed during the run is not on disk.
C1_AbortKeepsHistoryFile ==
    Aborted =>
      /\ saves = (IF "apiKey" \in asked THEN 1 ELSE 0)
      /\ file = (IF "apiKey" \in asked
                   THEN JsonText(JSONstringify(
                          Set(loadHistory(fileAtStart), "openAiApiKey",
                              Str(Trimmed(typed.apiKey.chars)))))
                   ELSE fileAtStart)
      /\ SessionsOn(file) = SessionsOn(fileAtStart)
      /\ RawTextsOn(file) = RawTextsOn(fileAtStart)

C1_Witness ==
    /\ Aborted
    /\ outcome = "llmError"
    /\ error = "stream failed"
    /\ "apiKey" \in asked
    /\ Len(Get(history, "rawTextsUsed").items) > Len(RawTextsOn(file))

\* The file holds an object with the two arrays.
WellShaped(f) ==
    /\ f.kind = "json"
    /\ f.doc.type = "object"
    /\ Get(f.doc, "rawTextsUsed").type = "array"
    /\ Get(f.doc, "sessions").type = "array"

\* C2: loadHistory returns the default store for every history file that is
\* missing, is not JSON, or is JSON of the wrong shape.
C2_LoadReturnsDefault ==
    (pc = "loaded" /\ ~WellShaped(file)) => history = DefaultHistory

\* C3: from an absent history file on, the i-th record on disk has id i: a run
\* that completes appends one record to those it found, any other run leaves
\* them as they were.
C3_SessionIds ==
    LET ss == SessionsOn(file)
        before == SessionsOn(fileAtStart)
    IN /\ \A i \in 1..Len(ss) : Get(ss[i], "id") = Num(i)
       /\ IF outcome = "saved"
            THEN Len(ss) = Len(before) + 1 /\ SubSeq(ss, 1, Len(before)) = before
            ELSE ss = before

C3_Witness ==
    /\ pc = "exited"
    /\ outcome = "saved"
    /\ Len(SessionsOn(fileAtStart)) = 1
    /\ Len(SessionsOn(file)) = 2

\* The event carries a non-empty content delta.
HasText(content) == content.type = "string" /\ Len(content.chars) > 0

\* The non-empty deltas of the events, in arrival order.
NonEmptyDeltas(evs) ==
    LET kept == SelectSeq(evs, HasText) IN [i \in 1..Len(kept) |-> kept[i].chars]

RECURSIVE Concat(_)
Concat(ts) == IF ts = <<>> THEN <<>> ELSE Head(ts) \o Concat(Tail(ts))

\* C4: the result of sendMessageToChatGPTWithStream is the concatenation of
\* the non-empty deltas of the events in arrival order, and the writes to the
\* standard output are those deltas in that order; an event with an empty or
\* missing delta adds nothing and writes nothing.
C4_StreamResult ==
    call \in {"streaming", "returned"} =>
      /\ stdout = NonEmptyDeltas(events)
      /\ message = Concat(NonEmptyDeltas(events))

C4_Witness ==
    /\ call = "returned"
    /\ events = <<Str(<<"l">>), Str(<<"H", "e">>)>>

\* The user picked the last option of the list, the literal one.
PickedLast == picked = Len(rawTextChoices(loadHistory(fileAtStart)))

\* C5: when the user picks the literal option and enters a text, the text is
\* appended once at the end of rawTextsUsed if it is not blank, rawTextsUsed is
\* unchanged if it is blank, and the text is the session's selectorText.
C5_NewTextRemembered ==
    (PickedLast /\ typed.newSelectorText # Undefined) =>
      LET t == typed.newSelectorText
          old == RawTextsOn(fileAtStart)
          cur == Get(history, "rawTextsUsed").items
      IN /\ selectorText = t
         /\ IF NonBlank(t.chars) THEN cur = Append(old, t) ELSE cur = old
         /\ outcome = "saved" =>
              Get(SessionsOn(file)[Len(SessionsOn(file))], "selectorText") = t

C5_Witness ==
    /\ PickedLast
    /\ typed.newSelectorText = Str(<<"a">>)
    /\ Len(RawTextsOn(fileAtStart)) = 1
    /\ Len(Get(history, "rawTextsUsed").items) = 2
    /\ outcome = "saved"

\* The key is empty or absent.
EmptyOrAbsent(k) == k \in {Undefined, Null, Str(<<>>)}

\* C6: initializeClient throws exactly when the key is empty or absent and
\* otherwise binds the client, a call that throws leaves the handle as it was;
\* sendMessageToChatGPTWithStream throws "OpenAI not initialized", and issues
\* no request, exactly when no earlier initializeClient call has succeeded.
C6_ClientGuards ==
    /\ lastInit.made =>
         /\ (lastInit.error # "") <=> EmptyOrAbsent(lastInit.apiKey)
         /\ lastInit.error # "" =>
              lastInit.error = "Failed to initiate OpenAI Client" /\ openai = lastInit.before
         /\ lastInit.error = "" => openai = Client(lastInit.apiKey)
    /\ lastSend.made =>
         /\ lastSend.notInitialized <=> ~lastSend.initialized
         /\ lastSend.issued <=> lastSend.initialized
    /\ initialized <=> openai # Null

C6_Witness ==
    /\ lastInit.made
    /\ lastInit.error # ""
    /\ lastInit.before # Null
    /\ lastSend.made
    /\ lastSend.issued
    /\ requests = 2

\* C7: the conversation has two messages, the fixed system message and a user
\* message made of the header, file 1's text, the second label, file 2's text,
\* "Task: " and the task prompt, or the fallback when the prompt is empty; the
\* selector text is no part of it.
C7_Conversation ==
    conversation # Undefined =>
      LET ms == conversation.items
          c == Get(ms[2], "content").chars
          n1 == Len(fileContent1)
          n2 == Len(fileContent2)
          task == Get(answers, "taskPrompt").chars
      IN /\ Len(ms) = 2
         /\ Get(ms[1], "role") = Str(<<"system">>)
         /\ Get(ms[1], "content") = Str(SystemContent)
         /\ Get(ms[2], "role") = Str(<<"user">>)
         /\ SubSeq(c, 1, 1) = Header
         /\ SubSeq(c, 2, 1 + n1) = fileContent1
         /\ SubSeq(c, 2 + n1, 2 + n1) = Label2
         /\ SubSeq(c, 3 + n1, 2 + n1 + n2) = fileContent2
         /\ SubSeq(c, 3 + n1 + n2, 3 + n1 + n2) = TaskLabel
         /\ SubSeq(c, 4 + n1 + n2, Len(c) - 1) = (IF task = <<>> THEN Fallback ELSE task)
         /\ c[Len(c)] = "\n"

C7_Witness ==
    /\ conversation # Undefined
    /\ Get(answers, "taskPrompt") = Str(<<>>)
    /\ fileContent1 = <<"A">>
    /\ fileContent2 = <<"B">>
    /\ selectorText = Str(<<"a">>)

\* C8: when the loaded history has no API key, the trimmed answer is in the
\* store and on disk before initializeClient is attempted; an answer that is
\* empty once trimmed is persisted too, initializeClient then throws, and the
\* run ends with no list prompt, no record and no other write.
C8_KeySavedBeforeInit ==
    typed.apiKey # Undefined =>
      LET key == Str(Trimmed(typed.apiKey.chars)) IN
        /\ Get(history, "openAiApiKey") = key
        /\ KeyOn(file) = key
        /\ ~lastInit.made => (pc = "init" /\ saves = 1 /\ file = saveHistory(history))
        /\ (lastInit.made /\ key = Str(<<>>)) =>
             /\ pc = "exited"
             /\ outcome = "initError"
             /\ "selectedOrNew" \notin asked
             /\ saves = 1
             /\ SessionsOn(file) = SessionsOn(fileAtStart)

C8_Witness ==
    /\ typed.apiKey = Str(<<" ">>)
    /\ pc = "exited"
    /\ outcome = "initError"
    /\ KeyOn(file) = Str(<<>>)

\* This step asks for the API key.
AsksKey == "apiKey" \in asked' /\ "apiKey" \notin asked

\* C9, as claimed: once a run has persisted an API key, no run asks for the key
\* again and the key on disk never changes.
C9_KeySetOnce ==
    [][KeyOn(file).type = "string" => (KeyOn(file') = KeyOn(file) /\ ~AsksKey)]_vars

\* C9, amended: once a run has persisted a non-empty API key, no run asks for
\* the key again and the key on disk never changes.
C9_NonEmptyKeySetOnce ==
    [][Truthy(KeyOn(file)) => (KeyOn(file') = KeyOn(file) /\ ~AsksKey)]_vars

C9_Witness ==
    /\ pc = "init"
    /\ "apiKey" \notin asked
    /\ Truthy(KeyOn(file))
    /\ Len(SessionsOn(file)) = 1

\* C10: when the user picks an option that is an entry of rawTextsUsed, the
\* entry is the session's selectorText, the follow-up prompt is not asked and
\* rawTextsUsed is unchanged, also when the entry is "Enter new text".
C10_PickedEntryUsedUnchanged ==
    LET old == RawTextsOn(fileAtStart) IN
      picked \in 1..Len(old) =>
        /\ selectorText = old[picked]
        /\ "newSelectorText" \notin asked
        /\ Get(history, "rawTextsUsed").items = old

====
